---- MODULE Spec2Model ----
(***************************************************************************)
(* A model of the event bus of "event bus/EventBus.hpp": the event type    *)
(* registry (GetUniqueEventId / GetEventId), the per-type EventPool (its   *)
(* Signal and its std::vector of pending events) and the EventBus with its *)
(* std::vector of pool pointers.                                           *)
(*                                                                         *)
(* The pools are objects on the heap, created by GetEventHandler and never *)
(* deleted; an EventBus holds pointers to them. EventBus declares no copy  *)
(* or move operation and no destructor, so the implicit ones act on the    *)
(* vector of pointers: a copy of a bus holds the same pointers, a copy     *)
(* assignment replaces the pointers of a bus, a move or a swap hands the   *)
(* storage of the vector over.                                             *)
(*                                                                         *)
(* Callables run on the caller's stack and may call back into the bus, so  *)
(* an operation that invokes callables is modelled as a frame on `stack`   *)
(* that advances one callable invocation at a time; an operation that      *)
(* invokes no callable is one atomic action.                               *)
(*                                                                         *)
(* Signal and Connection (signal.hpp) are not part of the sources at hand: *)
(* they are modelled from the specification (Bind appends a callable and   *)
(* returns its connection, the call operator invokes the callables that    *)
(* are bound when it is called, in subscription order, with one copy of    *)
(* the event, Disconnect removes the callable and is idempotent).          *)
(***************************************************************************)
EXTENDS Integers, Sequences, FiniteSets, TLC

\* The event types of the application: it enqueues, subscribes to and
\* selectively clears the queued types, and only triggers the third one.
QueuedTypes == {"T", "U"}
EventTypes == QueuedTypes \cup {"V"}

\* The types the application triggers from arguments, the types it asks the
\* id of outside the bus, and the types it enqueues from arguments through
\* each bus; through "bus" it triggers and enqueues T from an event it has
\* constructed (the overloads of lines 186 and 198, which act as the
\* argument-forwarding ones).
TriggeredTypes == {"V"}
RequestedTypes == {"U"}
EnqueuedTypes(b) == IF b = "bus" THEN {"U"} ELSE {"T"}

\* The EventBus objects of the application: "bus", which it constructs at
\* the start, and "b2", which it may construct from "bus" (as a copy, or by
\* a move).
Buses == {"bus", "b2"}

\* Bounds of the model.
MaxPending == 3
MaxConnections == 2
MaxCalls == 5

VARIABLES
    nextId,        \* GetUniqueEventId's static int id
    eventID,       \* GetEventId<Event>'s static int eventID, for the types initialised
    heap,          \* the EventPool objects created by new, in creation order
    mEventPools,   \* EventBus::mEventPools of each bus constructed: one slot per
                   \* type id (index = id + 1) holding a pointer into heap, or null
    poolsCap,      \* capacity of the vector mEventPools of each bus constructed
    connections,   \* the Connections handed out: the type subscribed and the pool bound to
    stack,         \* the call stack of bus operations and callables in progress
    crashed,       \* an undefined read ended the process
    calls,         \* number of calls made by the application and by callables
    revoked,       \* history: the connections passed to UnsubscribeFromEvent
    last           \* history: the last call made

vars == <<nextId, eventID, heap, mEventPools, poolsCap, connections, stack, crashed,
          calls, revoked, last>>

\* The state of the program, without the history and the call counters.
prog == <<nextId, eventID, heap, mEventPools, poolsCap, connections, stack, crashed>>

----------------------------------------------------------------------------
(* Values *)

\* The event constructed from args v for type t: Event{std::forward<Args>(args)...}.
MakeEvent(t, v) == [tag |-> t, val |-> v]

NoEvent == [tag |-> "none", val |-> 0]

\* The null pointer a slot of mEventPools is value-initialised with.
NullPool == 0

\* A freshly created EventPool<t>. `at` is history: for each pending event,
\* the number of connections that had been handed out when it was enqueued.
NewPool(t) ==
    [type |-> t, mSignal |-> <<>>, mEventQueue |-> <<>>, cap |-> 0, at |-> <<>>]

\* The null test on a slot read: if (eventHandler), !mEventPools[index].
IsPool(x) == x # NullPool

\* The slots of the vector v that hold a pool.
LiveSlots(v) == {k \in 1..Len(v) : IsPool(v[k])}

Max(a, b) == IF a >= b THEN a ELSE b

\* Capacity of a std::vector after push_back / emplace_back on (size, cap):
\* unchanged while there is room, else the storage is reallocated, doubled.
PushBackCap(size, cap) == IF size < cap THEN cap ELSE size + Max(size, 1)

\* Capacity of a std::vector after resize(n), n > size.
ResizeCap(size, cap, n) == IF n <= cap THEN cap ELSE size + Max(size, n - size)

\* v.resize(n) for n > Len(v): the new slots are value-initialised (null).
Resize(v, n) == [k \in 1..n |-> IF k <= Len(v) THEN v[k] ELSE NullPool]

----------------------------------------------------------------------------
(* The event type registry *)

\* GetUniqueEventId without the increment: every request returns the same id.
GetUniqueEventId_NoIncrement(n) == [ret |-> n, id |-> n]

\* GetUniqueEventId on the counter value n: returns n, leaves n + 1.
GetUniqueEventId(n) == [ret |-> n, id |-> n + 1]

\* GetEventId with a local that is not static: every call takes a new id.
GetEventId_NotStatic(n, ids, t) ==
    LET u == GetUniqueEventId(n)
    IN  [ret |-> u.ret, nextId |-> u.id,
         eventID |-> [x \in DOMAIN ids \cup {t} |-> IF x = t THEN u.ret ELSE ids[x]]]

\* GetEventId<t> on registry state (n, ids): the first call initialises the
\* static from GetUniqueEventId, later calls return it.
GetEventId(n, ids, t) ==
    IF t \in DOMAIN ids
    THEN [ret |-> ids[t], nextId |-> n, eventID |-> ids]
    ELSE LET u == GetUniqueEventId(n)
         IN  [ret |-> u.ret, nextId |-> u.id,
              eventID |-> [x \in DOMAIN ids \cup {t} |-> IF x = t THEN u.ret ELSE ids[x]]]

----------------------------------------------------------------------------
(* The state that GetEventHandler reads and writes, for the bus b *)

Bus(b) ==
    [nextId |-> nextId, eventID |-> eventID, heap |-> heap,
     mEventPools |-> mEventPools[b], poolsCap |-> poolsCap[b],
     realloc |-> FALSE, slot |-> 0, pool |-> NullPool]

\* GetEventHandler without the null test: a new pool is stored at every call.
GetEventHandler_Recreate(b, t) ==
    LET g == GetEventId(b.nextId, b.eventID, t)
        eventHandlerIndex == g.ret
        size == Len(b.mEventPools)
        grow == eventHandlerIndex >= size
        resized == IF grow THEN Resize(b.mEventPools, eventHandlerIndex + 1)
                   ELSE b.mEventPools
        cap == IF grow THEN ResizeCap(size, b.poolsCap, eventHandlerIndex + 1)
               ELSE b.poolsCap
        objects == Append(b.heap, NewPool(t))
    IN  [nextId |-> g.nextId, eventID |-> g.eventID, heap |-> objects,
         mEventPools |-> [resized EXCEPT ![eventHandlerIndex + 1] = Len(objects)],
         poolsCap |-> cap, realloc |-> (b.realloc \/ cap # b.poolsCap),
         slot |-> eventHandlerIndex + 1, pool |-> Len(objects)]

\* EventBus::GetEventHandler<t> on the state b of a bus: the pool of t (the
\* pointer in the slot of index id + 1), after growing the vector and
\* creating the pool when the slot is null. realloc records that the growth
\* moved the vector's storage.
GetEventHandler(b, t) ==
    LET g == GetEventId(b.nextId, b.eventID, t)
        eventHandlerIndex == g.ret
        size == Len(b.mEventPools)
        grow == eventHandlerIndex >= size
        resized == IF grow THEN Resize(b.mEventPools, eventHandlerIndex + 1)
                   ELSE b.mEventPools
        cap == IF grow THEN ResizeCap(size, b.poolsCap, eventHandlerIndex + 1)
               ELSE b.poolsCap
        create == ~IsPool(resized[eventHandlerIndex + 1])
        objects == IF create THEN Append(b.heap, NewPool(t)) ELSE b.heap
        pools == IF create THEN [resized EXCEPT ![eventHandlerIndex + 1] = Len(objects)]
                 ELSE resized
    IN  [nextId |-> g.nextId, eventID |-> g.eventID, heap |-> objects,
         mEventPools |-> pools,
         poolsCap |-> cap, realloc |-> (b.realloc \/ cap # b.poolsCap),
         slot |-> eventHandlerIndex + 1, pool |-> pools[eventHandlerIndex + 1]]

----------------------------------------------------------------------------
(* Signal and Connection, from the specification *)

\* Signal::Bind: the callable of connection c is appended to the bound ones.
Bind(signal, c) == Append(signal, c)

RECURSIVE Remove(_, _)
Remove(s, c) ==
    IF s = <<>> THEN <<>>
    ELSE IF Head(s) = c THEN Remove(Tail(s), c)
    ELSE <<Head(s)>> \o Remove(Tail(s), c)

\* Connection::Disconnect: the callable is bound to no pool's signal afterwards.
Disconnect(objects, c) ==
    [k \in 1..Len(objects) |-> [objects[k] EXCEPT !.mSignal = Remove(@, c)]]

----------------------------------------------------------------------------
(* The call stack *)

\* A frame of the stack. bus, pool, ev, sig, i, p, end, dang, mem, reuse, c
\* are the state of the operation: the bus whose vector a loop over the
\* pools iterates, the pool (this) of a pool operation, the event in hand,
\* the callables the signal call in progress walks and its position, the
\* position and the end of the range-for, whether its iterators dangle,
\* what the storage they point into can hold in the slots no vector covers
\* (a set of pointers for each slot), and the buses whose vector was given
\* storage after the storage the iterators point into was released (the
\* allocator may have handed them the same block). The rest is history: `at` the
\* stamp of the event in hand, `call` the event the caller asked for, snapS
\* the callables bound and snapQ the buffer (for the loop over the pools:
\* the vector) when the operation started, `done` the invocations it has
\* made (for the loop over the pools: the slots and pools it has flushed),
\* enq the number of events enqueued into its buffer meanwhile, chg whether
\* a callable was bound to or disconnected from its signal meanwhile (for
\* the loop over the pools: whether the vector was assigned to meanwhile).
Frame(kind) ==
    [kind |-> kind, bus |-> "none", pool |-> NullPool, ev |-> NoEvent, sig |-> <<>>,
     i |-> 0, p |-> 0, end |-> 0, dang |-> FALSE, mem |-> <<>>, c |-> 0, at |-> 0,
     reuse |-> {}, call |-> NoEvent, snapS |-> <<>>, snapQ |-> <<>>, done |-> <<>>,
     enq |-> 0, chg |-> FALSE]

Top == stack[Len(stack)]

Pop(s) == SubSeq(s, 1, Len(s) - 1)

\* The operation on top of the stack returns to its caller.
Return ==
    /\ stack' = Pop(stack)

\* The caller of an operation is the application (empty stack) or the
\* callable running on top of the stack.
AtTopLevel == stack = <<>> /\ ~crashed /\ calls < MaxCalls

InCallable == stack # <<>> /\ ~crashed /\ Top.kind = "invoke" /\ calls < MaxCalls

CanCall == AtTopLevel \/ InCallable

\* What a block of storage can hold when the vector in it is v and the slots
\* after the vector's end can hold m (slots given up by a shorter
\* assignment).
Image(v, m) ==
    [k \in 1..Max(Len(v), Len(m)) |-> IF k <= Len(v) THEN {v[k]} ELSE m[k]]

\* What the slots of a released block can hold when they could hold m and a
\* vector that may have been in the block, holding v, was released too.
Join(m, v) ==
    [k \in 1..Len(m) |-> IF k <= Len(v) THEN m[k] \cup {v[k]} ELSE m[k]]

\* The storage of the vector mEventPools of bus b, which held `old`, was
\* released (freed: a growth moved it, or an assignment replaced it) or the
\* vector was given new storage (alloc). The range-for loops over the
\* released storage that are in progress keep iterators into it; for the
\* loops whose iterators dangle already, the new storage may be the block
\* they point into, and the released one may have been it.
MarkPools(s, freed, alloc, b, old) ==
    [k \in 1..Len(s) |->
        IF s[k].kind # "dispatchAll" THEN s[k]
        ELSE IF s[k].dang
        THEN [s[k] EXCEPT !.mem = IF freed /\ b \in s[k].reuse THEN Join(@, old) ELSE @,
                          !.reuse = IF alloc THEN @ \cup {b}
                                    ELSE IF freed THEN @ \ {b} ELSE @]
        ELSE IF freed /\ s[k].bus = b
        THEN [s[k] EXCEPT !.dang = TRUE, !.mem = Image(old, @)]
        ELSE s[k]]

\* What the slots of a released block can hold when they could hold m and a
\* vector that may be in the block, holding v, was cut down to n elements in
\* place: the slots after the new end keep the pointers of v.
JoinAfter(m, v, n) ==
    [k \in 1..Len(m) |-> IF n < k /\ k <= Len(v) THEN m[k] \cup {v[k]} ELSE m[k]]

\* The vector mEventPools of bus b, which was `old`, was assigned n elements
\* in place: the range-for loops over it that are in progress keep their
\* end, and the slots after the vector's new end keep what they held; for
\* the loops whose iterators dangle, the block they point into may be the
\* one assigned to, whose slots after the new end still hold what `old`
\* held.
MarkAssigned(s, b, old, n) ==
    [k \in 1..Len(s) |->
        IF s[k].kind # "dispatchAll" THEN s[k]
        ELSE IF s[k].dang
        THEN [s[k] EXCEPT !.mem = IF b \in s[k].reuse THEN JoinAfter(@, old, n) ELSE @]
        ELSE IF s[k].bus = b
        THEN [s[k] EXCEPT !.mem = Image(old, @), !.chg = TRUE]
        ELSE s[k]]

\* The storage of the vectors changed hands (a move, a swap): the storage
\* of bus x is now that of bus to[x], and the range-for loops in progress
\* keep valid iterators into it.
HandOver(s, to) ==
    [k \in 1..Len(s) |->
        IF s[k].kind # "dispatchAll" THEN s[k]
        ELSE IF s[k].dang
        THEN [s[k] EXCEPT !.reuse = {IF x \in DOMAIN to THEN to[x] ELSE x : x \in @}]
        ELSE IF s[k].bus \in DOMAIN to
        THEN [s[k] EXCEPT !.bus = to[@]]
        ELSE s[k]]

\* An event was pushed onto mEventQueue of `pool`; with realloc the push
\* moved the vector's storage, and the range-for loops over it that are in
\* progress keep iterators into the freed storage.
MarkQueue(s, realloc, pool) ==
    [k \in 1..Len(s) |->
        IF s[k].kind = "flush" /\ s[k].pool = pool
        THEN [s[k] EXCEPT !.dang = @ \/ realloc, !.enq = @ + 1]
        ELSE s[k]]

\* The queues of `pools` were cleared: clear() invalidates the iterators of
\* the range-for loops over them that are in progress.
MarkCleared(s, pools) ==
    [k \in 1..Len(s) |->
        IF s[k].kind = "flush" /\ s[k].pool \in pools
        THEN [s[k] EXCEPT !.dang = TRUE]
        ELSE s[k]]

\* A callable was bound to or disconnected from the signal of `pool`: the
\* flushes of the pool that are in progress pass their next events to the
\* signal as it is now.
MarkSignal(s, pool) ==
    [k \in 1..Len(s) |->
        IF s[k].kind = "flush" /\ s[k].pool = pool
        THEN [s[k] EXCEPT !.chg = TRUE]
        ELSE s[k]]

\* The connections bound to pool h and not revoked, in subscription order.
BoundTo(h) ==
    SelectSeq([c \in 1..Len(connections) |-> c],
              LAMBDA c : connections[c].pool = h /\ c \notin revoked)

\* The pool bus b holds for type t, or null.
PoolOf(b, t) ==
    IF /\ b \in DOMAIN mEventPools
       /\ t \in DOMAIN eventID
       /\ eventID[t] < Len(mEventPools[b])
    THEN mEventPools[b][eventID[t] + 1]
    ELSE NullPool

\* Bus b has a pool for type t.
PoolExists(b, t) == IsPool(PoolOf(b, t))

\* The events pending for type t in bus b.
Queue(b, t) == IF PoolExists(b, t) THEN heap[PoolOf(b, t)].mEventQueue ELSE <<>>

Pending(b, t) == Len(Queue(b, t))

\* The argument of the event a caller builds for type t: callers number the
\* events of a type by their place in its buffer, so the events pending for
\* a type are told apart, and 0 is no event's argument.
Args(b, t) == {Pending(b, t) + 1}

----------------------------------------------------------------------------
Init ==
    /\ nextId = 0
    /\ eventID = <<>>
    /\ heap = <<>>
    /\ mEventPools = [b \in {"bus"} |-> <<>>]
    /\ poolsCap = [b \in {"bus"} |-> 0]
    /\ connections = <<>>
    /\ stack = <<>>
    /\ crashed = FALSE
    /\ calls = 0
    /\ revoked = {}
    /\ last = [op |-> "none", bus |-> "none", arg |-> <<>>, n |-> 0]

\* A call is made: it counts for the application or for the callable that
\* makes it, and is recorded.
Call(op, b, arg, n) ==
    /\ calls' = calls + 1
    /\ last' = [op |-> op, bus |-> b, arg |-> arg, n |-> n]

\* The registry and the vector of bus b after GetEventHandler returned h.
SetBus(b, h) ==
    /\ nextId' = h.nextId
    /\ eventID' = h.eventID
    /\ mEventPools' = [mEventPools EXCEPT ![b] = h.mEventPools]
    /\ poolsCap' = [poolsCap EXCEPT ![b] = h.poolsCap]

----------------------------------------------------------------------------
(* EventPool<Event> *)

\* TriggerEvent that value-initialises the event instead of building it from
\* the arguments.
PoolTriggerEvent_NoArgs(objects, h, t, v) ==
    [Frame("trigger") EXCEPT !.pool = h, !.ev = MakeEvent(t, 0),
                             !.sig = objects[h].mSignal]

\* EventPool::TriggerEvent: Event event{args...}; mSignal(event). The frame
\* holds the event and walks the callables bound at the call.
PoolTriggerEvent(objects, h, t, v) ==
    [Frame("trigger") EXCEPT !.pool = h, !.ev = MakeEvent(t, v),
                             !.sig = objects[h].mSignal]

\* EnqueueEvent inserting the event at the front of mEventQueue.
PoolEnqueueEvent_Front(pool, t, v) ==
    [pool EXCEPT !.mEventQueue = <<MakeEvent(t, v)>> \o @,
                 !.cap = PushBackCap(Len(pool.mEventQueue), pool.cap),
                 !.at = <<Len(connections)>> \o @]

\* EventPool::EnqueueEvent (both construction forms): one event built from
\* the arguments is appended to mEventQueue.
PoolEnqueueEvent(pool, t, v) ==
    [pool EXCEPT !.mEventQueue = Append(@, MakeEvent(t, v)),
                 !.cap = PushBackCap(Len(pool.mEventQueue), pool.cap),
                 !.at = Append(@, Len(connections))]

\* ClearEventQueue that drops only the newest event (pop_back for clear).
PoolClearEventQueue_PopBack(pool) ==
    [pool EXCEPT !.mEventQueue = SubSeq(@, 1, Len(@) - 1),
                 !.at = SubSeq(@, 1, Len(@) - 1)]

\* EventPool::ClearEventQueue: mEventQueue.clear() (the capacity stays).
PoolClearEventQueue(pool) == [pool EXCEPT !.mEventQueue = <<>>, !.at = <<>>]

\* EventPool::DispatchQueuedEvents on entry: the range-for takes begin() and
\* end() of mEventQueue once. snapQ is also what the storage holds.
PoolDispatchQueuedEvents(objects, h) ==
    [Frame("flush") EXCEPT !.pool = h, !.end = Len(objects[h].mEventQueue),
                           !.snapQ = objects[h].mEventQueue]

\* The invocation of the callable of connection c with event ev.
Invoke(c, ev, at) == [Frame("invoke") EXCEPT !.c = c, !.ev = ev, !.at = at]

----------------------------------------------------------------------------
(* EventBus: the operations *)

\* TriggerEvent that, called from a callable, defers its deliveries until the
\* operations in progress have returned.
TriggerEvent_Deferred(b, t, v) ==
    /\ CanCall
    /\ Call("TriggerEvent", b, <<t>>, v)
    /\ LET h == GetEventHandler(Bus(b), t)
       IN  /\ SetBus(b, h)
           /\ heap' = h.heap
           /\ stack' = <<[Frame("trigger") EXCEPT !.pool = h.pool, !.ev = MakeEvent(t, v),
                                                 !.sig = h.heap[h.pool].mSignal,
                                                 !.call = MakeEvent(t, v),
                                                 !.snapS = BoundTo(h.pool),
                                                 !.at = Len(connections)]>>
                        \o MarkPools(stack, h.realloc, h.realloc, b, mEventPools[b])
    /\ UNCHANGED <<connections, crashed, revoked>>

\* EventBus::TriggerEvent<t>(v) on bus b
TriggerEvent(b, t, v) ==
    /\ CanCall
    /\ Call("TriggerEvent", b, <<t>>, v)
    /\ LET h == GetEventHandler(Bus(b), t)
       IN  /\ SetBus(b, h)
           /\ heap' = h.heap
           /\ stack' = Append(MarkPools(stack, h.realloc, h.realloc, b, mEventPools[b]),
                              [PoolTriggerEvent(h.heap, h.pool, t, v) EXCEPT
                                  !.call = MakeEvent(t, v), !.snapS = BoundTo(h.pool),
                                  !.at = Len(connections)])
    /\ UNCHANGED <<connections, crashed, revoked>>

\* EventBus::EnqueueEvent<t>(v) on bus b
EnqueueEvent(b, t, v) ==
    /\ CanCall
    /\ Call("EnqueueEvent", b, <<t>>, v)
    /\ LET h == GetEventHandler(Bus(b), t)
       IN  /\ Len(h.heap[h.pool].mEventQueue) < MaxPending
           /\ SetBus(b, h)
           /\ heap' = [h.heap EXCEPT ![h.pool] = PoolEnqueueEvent(@, t, v)]
           /\ stack' = MarkQueue(MarkPools(stack, h.realloc, h.realloc, b, mEventPools[b]),
                                 PoolEnqueueEvent(h.heap[h.pool], t, v).cap #
                                     h.heap[h.pool].cap,
                                 h.pool)
    /\ UNCHANGED <<connections, crashed, revoked>>

\* How an already-constructed event of type t is passed to the overloads
\* taking Event &&event.
Forms == {"temporary", "lvalue", "const lvalue"}

\* std::remove_reference<Event>::type for the Event deduced from the
\* argument: t for a temporary (Event = t) and for a non-const variable
\* (Event = t&), const t for a const variable (Event = const t&).
RemoveReference(form, t) == [const |-> form = "const lvalue", type |-> t]

\* EventPool<e> can be instantiated: its member std::vector<Event> requires
\* a non-const value type.
Instantiable(e) == ~e.const

\* EventBus::TriggerEvent(Event &&event): the pool of the type with the
\* reference removed builds its event from the value passed.
TriggerEventValue(form, b, t, v) ==
    /\ Instantiable(RemoveReference(form, t))
    /\ TriggerEvent(b, RemoveReference(form, t).type, v)

\* EventBus::EnqueueEvent(Event &&event)
EnqueueEventValue(form, b, t, v) ==
    /\ Instantiable(RemoveReference(form, t))
    /\ EnqueueEvent(b, RemoveReference(form, t).type, v)

\* EventBus::DispatchQueuedEvents() on bus b: the range-for over mEventPools
\* takes begin() and end() once.
DispatchQueuedEvents(b) ==
    /\ CanCall
    /\ Call("DispatchQueuedEvents", b, <<>>, 0)
    /\ stack' = Append(stack, [Frame("dispatchAll") EXCEPT
                                  !.bus = b, !.p = 1, !.end = Len(mEventPools[b]),
                                  !.snapQ = mEventPools[b]])
    /\ UNCHANGED <<nextId, eventID, heap, mEventPools, poolsCap, connections, crashed,
                   revoked>>

\* The pools the vector v points to.
Pools(v) == {v[k] : k \in LiveSlots(v)}

\* Number of events pending in the pools of the set S.
RECURSIVE Total(_, _)
Total(objects, S) ==
    IF S = {} THEN 0
    ELSE LET h == CHOOSE x \in S : TRUE
         IN  Len(objects[h].mEventQueue) + Total(objects, S \ {h})

\* ClearEventQueues() going through GetEventHandler for every type of the
\* registry: the pools that are absent are created.
ClearEventQueues_Create(b) ==
    /\ CanCall
    /\ Call("ClearEventQueues", b, <<>>, Total(heap, Pools(mEventPools[b])))
    /\ LET RECURSIVE All(_, _)
           All(s, ts) == IF ts = {} THEN s
                         ELSE LET t == CHOOSE x \in ts : TRUE
                              IN  All(GetEventHandler(s, t), ts \ {t})
           h == All(Bus(b), DOMAIN eventID)
       IN  /\ SetBus(b, h)
           /\ heap' = [k \in 1..Len(h.heap) |->
                          IF k \in Pools(h.mEventPools) THEN PoolClearEventQueue(h.heap[k])
                          ELSE h.heap[k]]
           /\ stack' = MarkCleared(stack, Pools(h.mEventPools))
    /\ UNCHANGED <<connections, crashed, revoked>>

\* EventBus::ClearEventQueues() on bus b: the queue of every non-null pool
\* of the vector is cleared.
ClearEventQueues(b) ==
    /\ CanCall
    /\ Call("ClearEventQueues", b, <<>>, Total(heap, Pools(mEventPools[b])))
    /\ heap' = [k \in 1..Len(heap) |->
                   IF k \in Pools(mEventPools[b]) THEN PoolClearEventQueue(heap[k])
                   ELSE heap[k]]
    /\ stack' = MarkCleared(stack, Pools(mEventPools[b]))
    /\ UNCHANGED <<nextId, eventID, mEventPools, poolsCap, connections, crashed, revoked>>

\* The fold element clearing every pool instead of the pool of t.
ClearOne_All(s, t) ==
    LET h == GetEventHandler(s, t)
    IN  [h EXCEPT !.heap = [k \in 1..Len(h.heap) |-> PoolClearEventQueue(h.heap[k])]]

\* One element of the fold of ClearEventQueues<Events...>:
\* GetEventHandler<t>().ClearEventQueue().
ClearOne(s, t) ==
    LET h == GetEventHandler(s, t)
    IN  [h EXCEPT !.heap[h.pool] = PoolClearEventQueue(@)]

RECURSIVE ClearFold(_, _)
ClearFold(s, ts) ==
    IF ts = <<>> THEN s ELSE ClearFold(ClearOne(s, Head(ts)), Tail(ts))

\* The packs of event types a selective operation is instantiated with.
Packs == {<<"T">>, <<"T", "U">>}

\* EventBus::ClearEventQueues<ts...>() on bus b
ClearEventQueuesSel(b, ts) ==
    /\ CanCall
    /\ LET h == ClearFold(Bus(b), ts)
       IN  /\ Call("ClearEventQueuesSel", b, ts,
                   Total(heap, 1..Len(heap)) - Total(h.heap, 1..Len(heap)))
           /\ SetBus(b, h)
           /\ heap' = h.heap
           /\ stack' = MarkCleared(MarkPools(stack, h.realloc, h.realloc, b, mEventPools[b]),
                                   {h.mEventPools[h.eventID[ts[k]] + 1] : k \in DOMAIN ts})
    /\ UNCHANGED <<connections, crashed, revoked>>

\* The member functions EventPool declares.
EventPoolMembers == {"TriggerEvent", "EnqueueEvent", "DispatchQueuedEvents", "ClearEventQueue"}

\* EventBus::DispatchQueuedEvents<t>(): the fold calls
\* GetEventHandler<t>().DispatchEvents(). EventPool declares no member
\* DispatchEvents (and GetEventHandler is not const while this function is),
\* so no program that holds the call is built: the operation has no step,
\* and is no disjunct of Next.
DispatchQueuedEventsSel(b, t) ==
    /\ CanCall
    /\ "DispatchEvents" \in EventPoolMembers
    /\ Call("DispatchQueuedEventsSel", b, <<t>>, 0)
    /\ LET h == GetEventHandler(Bus(b), t)
       IN  /\ SetBus(b, h)
           /\ heap' = h.heap
           /\ stack' = Append(MarkPools(stack, h.realloc, h.realloc, b, mEventPools[b]),
                              [PoolDispatchQueuedEvents(h.heap, h.pool) EXCEPT
                                  !.snapS = BoundTo(h.pool)])
    /\ UNCHANGED <<connections, crashed, revoked>>

\* SubscribeToEvent that replays the pending events of t to the new callable.
SubscribeToEvent_Replay(b, t) ==
    /\ CanCall
    /\ Len(connections) < MaxConnections
    /\ LET h == GetEventHandler(Bus(b), t)
           c == Len(connections) + 1
       IN  /\ Call("SubscribeToEvent", b, <<t>>, c)
           /\ SetBus(b, h)
           /\ heap' = [h.heap EXCEPT ![h.pool].mSignal = Bind(@, c)]
           /\ connections' = Append(connections, [type |-> t, pool |-> h.pool])
           /\ stack' = Append(MarkPools(stack, h.realloc, h.realloc, b, mEventPools[b]),
                              [Frame("flush") EXCEPT !.pool = h.pool, !.end = Pending(b, t),
                                                     !.snapQ = Queue(b, t),
                                                     !.snapS = <<c>>])
    /\ UNCHANGED <<crashed, revoked>>

\* EventBus::SubscribeToEvent<t>(callable) on bus b: the callable is bound
\* to the signal of t's pool; the connection returned is c.
SubscribeToEvent(b, t) ==
    /\ CanCall
    /\ Len(connections) < MaxConnections
    /\ LET h == GetEventHandler(Bus(b), t)
           c == Len(connections) + 1
       IN  /\ Call("SubscribeToEvent", b, <<t>>, c)
           /\ SetBus(b, h)
           /\ heap' = [h.heap EXCEPT ![h.pool].mSignal = Bind(@, c)]
           /\ connections' = Append(connections, [type |-> t, pool |-> h.pool])
           /\ stack' = MarkSignal(MarkPools(stack, h.realloc, h.realloc, b, mEventPools[b]), h.pool)
    /\ UNCHANGED <<crashed, revoked>>

\* UnsubscribeFromEvent that drops the connection without disconnecting it.
UnsubscribeFromEvent_NoDisconnect(c) ==
    /\ CanCall
    /\ c \in 1..Len(connections)
    /\ Call("UnsubscribeFromEvent", "none", <<>>, c)
    /\ revoked' = revoked \cup {c}
    /\ stack' = IF c \in revoked THEN stack ELSE MarkSignal(stack, connections[c].pool)
    /\ UNCHANGED <<nextId, eventID, heap, mEventPools, poolsCap, connections, crashed>>

\* EventBus::UnsubscribeFromEvent(c): connection.Disconnect(). The function
\* reads nothing of the bus it is called on.
UnsubscribeFromEvent(c) ==
    /\ CanCall
    /\ c \in 1..Len(connections)
    /\ Call("UnsubscribeFromEvent", "none", <<>>, c)
    /\ heap' = Disconnect(heap, c)
    /\ revoked' = revoked \cup {c}
    /\ stack' = IF c \in revoked THEN stack ELSE MarkSignal(stack, connections[c].pool)
    /\ UNCHANGED <<nextId, eventID, mEventPools, poolsCap, connections, crashed>>

\* GetEventId<t>() called outside GetEventHandler, by the application or by
\* a callable.
RequestEventId(t) ==
    /\ CanCall
    /\ LET g == GetEventId(nextId, eventID, t)
       IN  /\ Call("GetEventId", "none", <<t>>, g.ret)
           /\ nextId' = g.nextId
           /\ eventID' = g.eventID
    /\ UNCHANGED <<heap, mEventPools, poolsCap, connections, stack, crashed, revoked>>

\* GetUniqueEventId() called directly, by the application or by a callable:
\* the id it returns is the id of no type.
RequestUniqueEventId ==
    /\ CanCall
    /\ LET u == GetUniqueEventId(nextId)
       IN  /\ Call("GetUniqueEventId", "none", <<>>, u.ret)
           /\ nextId' = u.id
    /\ UNCHANGED <<eventID, heap, mEventPools, poolsCap, connections, stack, crashed,
                   revoked>>

\* EventBus b2 = bus: the implicit copy constructor copies the vector of
\* pointers (into storage of its own, of capacity size), so the copy holds
\* the same pool objects.
CopyBus(src, dst) ==
    /\ CanCall
    /\ src \in DOMAIN mEventPools
    /\ dst \notin DOMAIN mEventPools
    /\ Call("CopyBus", dst, <<src>>, Len(mEventPools[src]))
    /\ mEventPools' = [x \in DOMAIN mEventPools \cup {dst} |->
                          IF x = dst THEN mEventPools[src] ELSE mEventPools[x]]
    /\ poolsCap' = [x \in DOMAIN poolsCap \cup {dst} |->
                       IF x = dst THEN Len(mEventPools[src]) ELSE poolsCap[x]]
    /\ stack' = MarkPools(stack, FALSE, mEventPools[src] # <<>>, dst, <<>>)
    /\ UNCHANGED <<nextId, eventID, heap, connections, crashed, revoked>>

\* dst = src: the implicit copy assignment copies the vector of pointers,
\* into new storage (of capacity size) when the storage of dst is too
\* small, else in place; the assignment of a vector to itself does nothing.
CopyAssignBus(dst, src) ==
    /\ CanCall
    /\ {dst, src} \subseteq DOMAIN mEventPools
    /\ Call("CopyAssignBus", dst, <<src>>, Len(mEventPools[src]))
    /\ LET realloc == Len(mEventPools[src]) > poolsCap[dst]
       IN  /\ mEventPools' = [mEventPools EXCEPT ![dst] = mEventPools[src]]
           /\ poolsCap' = [poolsCap EXCEPT ![dst] =
                               IF realloc THEN Len(mEventPools[src]) ELSE @]
           /\ stack' = IF dst = src THEN stack
                       ELSE IF realloc
                       THEN MarkPools(stack, poolsCap[dst] > 0, TRUE, dst, mEventPools[dst])
                       ELSE MarkAssigned(stack, dst, mEventPools[dst],
                                         Len(mEventPools[src]))
    /\ UNCHANGED <<nextId, eventID, heap, connections, crashed, revoked>>

\* EventBus dst = std::move(src): the implicit move constructor hands the
\* storage of src's vector over to dst and leaves src empty.
MoveBus(src, dst) ==
    /\ CanCall
    /\ src \in DOMAIN mEventPools
    /\ dst \notin DOMAIN mEventPools
    /\ Call("MoveBus", dst, <<src>>, Len(mEventPools[src]))
    /\ mEventPools' = [x \in DOMAIN mEventPools \cup {dst} |->
                          IF x = dst THEN mEventPools[src] ELSE
                          IF x = src THEN <<>> ELSE mEventPools[x]]
    /\ poolsCap' = [x \in DOMAIN poolsCap \cup {dst} |->
                       IF x = dst THEN poolsCap[src] ELSE
                       IF x = src THEN 0 ELSE poolsCap[x]]
    /\ stack' = HandOver(stack, [x \in {src} |-> dst])
    /\ UNCHANGED <<nextId, eventID, heap, connections, crashed, revoked>>

\* dst = std::move(src): the implicit move assignment releases the storage
\* dst had, hands the storage of src's vector over to dst and leaves src
\* empty; a bus moved to itself is left empty, its storage released.
MoveAssignBus(dst, src) ==
    /\ CanCall
    /\ {dst, src} \subseteq DOMAIN mEventPools
    /\ Call("MoveAssignBus", dst, <<src>>, Len(mEventPools[src]))
    /\ mEventPools' = [mEventPools EXCEPT ![dst] = mEventPools[src], ![src] = <<>>]
    /\ poolsCap' = [poolsCap EXCEPT ![dst] = poolsCap[src], ![src] = 0]
    /\ stack' = HandOver(MarkPools(stack, poolsCap[dst] > 0, FALSE, dst,
                                   mEventPools[dst]),
                         [x \in {src} |-> dst])
    /\ UNCHANGED <<nextId, eventID, heap, connections, crashed, revoked>>

\* std::swap(a, b): three moves, which exchange the storage of the two
\* vectors and release none (a bus swapped with itself is as it was).
SwapBus(a, b) ==
    /\ CanCall
    /\ {a, b} \subseteq DOMAIN mEventPools
    /\ Call("SwapBus", a, <<b>>, Len(mEventPools[b]))
    /\ mEventPools' = [mEventPools EXCEPT ![a] = mEventPools[b], ![b] = mEventPools[a]]
    /\ poolsCap' = [poolsCap EXCEPT ![a] = poolsCap[b], ![b] = poolsCap[a]]
    /\ stack' = HandOver(stack, [x \in {a, b} |-> IF x = a THEN b ELSE a])
    /\ UNCHANGED <<nextId, eventID, heap, connections, crashed, revoked>>

\* b = EventBus(): the implicit move assignment gives b the empty vector of
\* the temporary and releases the storage b had; the pools b pointed to are
\* not deleted.
AssignBus(b) ==
    /\ CanCall
    /\ Call("AssignBus", b, <<>>, Len(mEventPools[b]))
    /\ mEventPools' = [mEventPools EXCEPT ![b] = <<>>]
    /\ poolsCap' = [poolsCap EXCEPT ![b] = 0]
    /\ stack' = MarkPools(stack, poolsCap[b] > 0, FALSE, b, mEventPools[b])
    /\ UNCHANGED <<nextId, eventID, heap, connections, crashed, revoked>>

----------------------------------------------------------------------------
(* The steps of the operations in progress *)

Running(kind) == stack # <<>> /\ ~crashed /\ Top.kind = kind

TopSignal == heap[Top.pool].mSignal

TopQueue == heap[Top.pool].mEventQueue

\* The stack once the frame on top, updated to f, has invoked callable c
\* with the event f holds.
Deliver(f, c) ==
    Append([stack EXCEPT ![Len(stack)] = [f EXCEPT !.done = Append(@, <<c, f.ev>>)]],
           Invoke(c, f.ev, f.at))

\* mSignal(event) of TriggerEvent: the next callable is invoked.
TriggerInvoke ==
    /\ Running("trigger")
    /\ Top.i < Len(Top.sig)
    /\ stack' = Deliver([Top EXCEPT !.i = @ + 1], Top.sig[Top.i + 1])
    /\ UNCHANGED <<nextId, eventID, heap, mEventPools, poolsCap, connections, crashed,
                   calls, revoked, last>>

\* TriggerEvent returns.
TriggerReturn ==
    /\ Running("trigger")
    /\ Top.i >= Len(Top.sig)
    /\ Return
    /\ UNCHANGED <<nextId, eventID, heap, mEventPools, poolsCap, connections, crashed,
                   calls, revoked, last>>

\* mSignal(event) of the flush, for the element it is at: the next callable
\* is invoked with the copy of the event taken at the call.
FlushMore == Top.p >= 1 /\ Top.i < Len(Top.sig)

\* The loop has elements left.
FlushLeft == ~FlushMore /\ Top.p < Top.end

\* The loop goes on to its next element (with no callable bound the loop
\* body calls nothing, and the rest of the loop is part of FlushReturn).
FlushNext == FlushLeft /\ Len(TopSignal) > 0

\* The element the loop goes on to is an element of the vector: the storage
\* has not moved and the element has not been destroyed.
FlushReadValid == ~Top.dang /\ Top.p + 1 <= Len(TopQueue)

\* What a read of element p + 1 yields when it is undefined: the event that
\* was there when the loop started, the event that is there now, or a value
\* that is no event's.
UndefinedReads(f) ==
    {f.snapQ[f.p + 1], MakeEvent(heap[f.pool].type, 0)} \cup
    {heap[f.pool].mEventQueue[k] :
        k \in {f.p + 1} \cap 1..Len(heap[f.pool].mEventQueue)}

FlushInvoke ==
    /\ Running("flush")
    /\ FlushMore
    /\ stack' = Deliver([Top EXCEPT !.i = @ + 1], Top.sig[Top.i + 1])
    /\ UNCHANGED <<nextId, eventID, heap, mEventPools, poolsCap, connections, crashed,
                   calls, revoked, last>>

FlushAdvance ==
    /\ Running("flush")
    /\ FlushNext
    /\ FlushReadValid
    /\ stack' = Deliver([Top EXCEPT !.p = @ + 1, !.i = 1, !.ev = TopQueue[Top.p + 1],
                                    !.sig = TopSignal,
                                    !.at = heap[Top.pool].at[Top.p + 1]],
                        TopSignal[1])
    /\ UNCHANGED <<nextId, eventID, heap, mEventPools, poolsCap, connections, crashed,
                   calls, revoked, last>>

\* The loop reads through an iterator into freed storage, or an element that
\* clear() destroyed: an undefined read, which yields some event value
\* (the old one or another) ...
FlushAdvanceUndefined ==
    /\ Running("flush")
    /\ FlushNext
    /\ ~FlushReadValid
    /\ \E ev \in UndefinedReads(Top) :
          stack' = Deliver([Top EXCEPT !.p = @ + 1, !.i = 1, !.ev = ev,
                                       !.sig = TopSignal,
                                       !.at = Len(connections)],
                           TopSignal[1])
    /\ UNCHANGED <<nextId, eventID, heap, mEventPools, poolsCap, connections, crashed,
                   calls, revoked, last>>

\* ... or ends the process.
FlushCrash ==
    /\ Running("flush")
    /\ FlushLeft
    /\ ~FlushReadValid
    /\ crashed' = TRUE
    /\ UNCHANGED <<nextId, eventID, heap, mEventPools, poolsCap, connections, stack,
                   calls, revoked, last>>

\* The loop is over: ClearEventQueue(), and DispatchQueuedEvents returns.
FlushReturn ==
    /\ Running("flush")
    /\ ~FlushMore
    /\ ~FlushNext
    /\ heap' = [heap EXCEPT ![Top.pool] = PoolClearEventQueue(@)]
    /\ stack' = MarkCleared(Pop(stack), {Top.pool})
    /\ UNCHANGED <<nextId, eventID, mEventPools, poolsCap, connections, crashed, calls,
                   revoked, last>>

\* What the loop over mEventPools can read in slot q: the pointer the vector
\* holds (after the vector's end: the pointer the slot was left with) or,
\* through an iterator into released storage, a pointer the storage can
\* still hold, null, or the pointer in slot q of a vector that was given
\* storage since and may have been handed the block (any other value is no
\* pool's address: the call through it is DispatchAllCrash).
SlotReads(f, q) ==
    IF f.dang
    THEN f.mem[q] \cup {NullPool} \cup
         {mEventPools[b][q] : b \in {x \in f.reuse : q <= Len(mEventPools[x])}}
    ELSE IF q <= Len(mEventPools[f.bus]) THEN {mEventPools[f.bus][q]} ELSE f.mem[q]

\* The slots the loop can take a pool from next: a slot that can read as a
\* pool, every slot before it able to read as null.
NextSlots(f) ==
    {q \in f.p..f.end :
        /\ \E x \in SlotReads(f, q) : IsPool(x)
        /\ \A r \in f.p..(q - 1) : \E y \in SlotReads(f, r) : ~IsPool(y)}

\* Every slot the loop has left can read as null.
LoopCanEnd(f) == \A r \in f.p..f.end : \E y \in SlotReads(f, r) : ~IsPool(y)

\* The loop of DispatchQueuedEvents() goes on to the next slot that reads as
\* a pool and flushes the pool.
DispatchAllNext ==
    /\ Running("dispatchAll")
    /\ \E q \in NextSlots(Top) : \E h \in {x \in SlotReads(Top, q) : IsPool(x)} :
          stack' = Append([stack EXCEPT ![Len(stack)].p = q + 1,
                                        ![Len(stack)].done = Append(@, <<q, h>>)],
                          [PoolDispatchQueuedEvents(heap, h) EXCEPT !.snapS = BoundTo(h)])
    /\ UNCHANGED <<nextId, eventID, heap, mEventPools, poolsCap, connections, crashed,
                   calls, revoked, last>>

\* The read of a slot through an iterator into freed storage ends the process.
DispatchAllCrash ==
    /\ Running("dispatchAll")
    /\ Top.dang
    /\ Top.p <= Top.end
    /\ crashed' = TRUE
    /\ UNCHANGED <<nextId, eventID, heap, mEventPools, poolsCap, connections, stack,
                   calls, revoked, last>>

\* The loop is over (every slot left read as null): DispatchQueuedEvents
\* returns.
DispatchAllReturn ==
    /\ Running("dispatchAll")
    /\ LoopCanEnd(Top)
    /\ Return
    /\ UNCHANGED <<nextId, eventID, heap, mEventPools, poolsCap, connections, crashed,
                   calls, revoked, last>>

\* The callable on top of the stack returns.
CallableReturn ==
    /\ Running("invoke")
    /\ Return
    /\ UNCHANGED <<nextId, eventID, heap, mEventPools, poolsCap, connections, crashed,
                   calls, revoked, last>>

----------------------------------------------------------------------------
\* A call of an operation needs a caller (CanCall): the application, or the
\* callable that is running; the steps of the operations in progress need
\* none.
Next ==
    \/ CanCall /\ \E t \in TriggeredTypes : \E v \in Args("bus", t) : TriggerEvent("bus", t, v)
    \/ CanCall /\ \E b \in DOMAIN mEventPools : \E t \in EnqueuedTypes(b) :
          \E v \in Args(b, t) : EnqueueEvent(b, t, v)
    \/ CanCall /\ \E form \in Forms : \E v \in Args("bus", "T") :
          TriggerEventValue(form, "bus", "T", v)
    \/ CanCall /\ \E form \in Forms : \E v \in Args("bus", "T") :
          EnqueueEventValue(form, "bus", "T", v)
    \/ CanCall /\ \E b \in DOMAIN mEventPools : DispatchQueuedEvents(b)
    \/ CanCall /\ \E b \in DOMAIN mEventPools : ClearEventQueues(b)
    \/ CanCall /\ \E ts \in Packs : ClearEventQueuesSel("bus", ts)
    \/ CanCall /\ \E t \in QueuedTypes : SubscribeToEvent("bus", t)
    \/ CanCall /\ \E c \in 1..MaxConnections : UnsubscribeFromEvent(c)
    \/ CanCall /\ \E t \in RequestedTypes : RequestEventId(t)
    \/ CanCall /\ RequestUniqueEventId
    \/ CanCall /\ CopyBus("bus", "b2")
    \/ CanCall /\ MoveBus("bus", "b2")
    \/ CanCall /\ \E dst \in Buses : \E src \in Buses : CopyAssignBus(dst, src)
    \/ CanCall /\ \E dst \in Buses : \E src \in Buses : MoveAssignBus(dst, src)
    \/ CanCall /\ SwapBus("bus", "b2")
    \/ CanCall /\ AssignBus("bus")
    \/ TriggerInvoke
    \/ TriggerReturn
    \/ FlushInvoke
    \/ FlushAdvance
    \/ FlushAdvanceUndefined
    \/ FlushCrash
    \/ FlushReturn
    \/ DispatchAllNext
    \/ DispatchAllCrash
    \/ DispatchAllReturn
    \/ CallableReturn

Spec == Init /\ [][Next]_vars

----------------------------------------------------------------------------
(* Properties *)

\* The invocations a signal with callables cs makes for event ev, in order.
Walk(cs, ev) == [j \in 1..Len(cs) |-> <<cs[j], ev>>]

\* The invocations a flush of buffer q makes with callables cs bound.
RECURSIVE Expected(_, _)
Expected(q, cs) ==
    IF q = <<>> THEN <<>> ELSE Walk(cs, Head(q)) \o Expected(Tail(q), cs)

IsPrefix(a, b) == Len(a) <= Len(b) /\ a = SubSeq(b, 1, Len(a))

Range(f) == {f[x] : x \in DOMAIN f}

\* The step is a call of operation op, as Call records it.
Called(op) == calls' = calls + 1 /\ last'.op = op

\* The step is a call of operation op for (or naming) event type t.
CalledFor(op, t) == Called(op) /\ t \in Range(last'.arg)

\* The step is a call of operation op on bus b.
CalledOn(op, b) == Called(op) /\ last'.bus = b

\* The step is a call on bus b of an operation that goes through
\* GetEventHandler<t>.
Used(b, t) ==
    /\ last'.bus = b
    /\ \/ CalledFor("TriggerEvent", t)
       \/ CalledFor("EnqueueEvent", t)
       \/ CalledFor("SubscribeToEvent", t)

\* The step starts a call of the signal of a pool: the frame k of stack'
\* is a TriggerEvent just called, or a flush that has gone on to an element.
Starts(k) ==
    \/ stack'[k].kind = "trigger" /\ k = Len(stack') /\ Called("TriggerEvent")
    \/ stack'[k].kind = "flush" /\ k \in DOMAIN stack /\ stack'[k].p # stack[k].p

\* C1: TriggerEvent<T>(a) invokes each callable bound to T at the moment of
\* the call exactly once, in subscription order, with a value equal to T(a),
\* all of it before TriggerEvent returns; with no callable bound it invokes
\* nothing.
C1_TriggerDelivers ==
    [][ /\ \A b \in Buses : \A t \in EventTypes :
              (CalledFor("TriggerEvent", t) /\ last'.bus = b) =>
                  /\ stack'[Len(stack')].kind = "trigger"
                  /\ stack'[Len(stack')].call = MakeEvent(t, last'.n)
                  /\ stack'[Len(stack')].pool = PoolOf(b, t)'
                  /\ \A h \in DOMAIN heap' :
                        stack'[Len(stack')].pool = h =>
                            stack'[Len(stack')].snapS = BoundTo(h)
        /\ \A k \in DOMAIN stack' :
              stack'[k].kind = "trigger" =>
                  IsPrefix(stack'[k].done, Walk(stack'[k].snapS, stack'[k].call))
        /\ TriggerReturn => Top.done = Walk(Top.snapS, Top.call) ]_vars

\* A TriggerEvent that has invoked two bound callables and is about to return.
C1_Witness ==
    /\ stack # <<>>
    /\ ~crashed
    /\ Top.kind = "trigger"
    /\ Len(Top.snapS) = 2
    /\ Len(Top.done) = 2

\* C2: after EnqueueEvent<T>(a1), ..., EnqueueEvent<T>(an), with no dispatch
\* or clear in between, DispatchQueuedEvents() invokes each callable bound to
\* T with T(a1), ..., T(an) in that order, exactly once each, and T's buffer
\* is empty when the dispatch returns (the callables bound to T being the
\* same throughout).
C2_DispatchDeliversInOrder ==
    [][ (FlushReturn /\ ~Top.chg) =>
            /\ Top.done = Expected(Top.snapQ, Top.snapS)
            /\ heap'[Top.pool].mEventQueue = <<>> ]_vars

\* C3: when a callable enqueues an event of T while T's buffer is flushed,
\* the flush delivers exactly the events that were in the buffer when it
\* started: every invocation it makes is one of the snapshot's, in order.
C3_StableSnapshot ==
    \A k \in DOMAIN stack :
        (stack[k].kind = "flush" /\ stack[k].enq > 0 /\ ~stack[k].chg) =>
            /\ ~(crashed /\ k = Len(stack))
            /\ IsPrefix(stack[k].done, Expected(stack[k].snapQ, stack[k].snapS))

\* C4: the events of T that callables enqueue during a flush of T's buffer
\* are pending in T's buffer when the dispatch returns.
C4_EnqueuedDuringFlushStaysPending ==
    [][ (FlushReturn /\ Top.enq > 0) =>
            /\ Len(TopQueue) >= Top.enq
            /\ heap'[Top.pool].mEventQueue =
                   SubSeq(TopQueue, Len(TopQueue) - Top.enq + 1, Len(TopQueue)) ]_vars

\* C5: once UnsubscribeFromEvent(c) has returned, no TriggerEvent called
\* later and no signal call a flush makes later (for an event enqueued
\* before or after) walks the callable bound through c, and a callable is
\* invoked only by such a walk; a second UnsubscribeFromEvent(c) changes
\* nothing.
C5_UnsubscribedNotInvoked ==
    [][ /\ \A k \in DOMAIN stack' :
              /\ stack'[k].kind = "invoke" =>
                    /\ k > 1
                    /\ stack'[k].c \in Range(stack'[k - 1].sig)
              /\ Starts(k) => Range(stack'[k].sig) \cap revoked' = {}
        /\ \A c \in revoked :
              (Called("UnsubscribeFromEvent") /\ last'.n = c) => UNCHANGED prog ]_vars

\* A flush delivers a pending event to a callable still bound, while another
\* connection to the same type has been unsubscribed.
C5_Witness ==
    /\ Len(stack) >= 2
    /\ Top.kind = "invoke"
    /\ stack[Len(stack) - 1].kind = "flush"
    /\ \E c \in revoked : connections[c].type = Top.ev.tag /\ c < Top.c

\* C6 as stated: a callable subscribed to T is never invoked with an event
\* of T that was pending in T's buffer before the subscription.
C6_NotRetroactive ==
    \A k \in DOMAIN stack :
        stack[k].kind = "invoke" => stack[k].c <= stack[k].at

\* C6, amended: SubscribeToEvent<T> invokes no callable and leaves every
\* buffer as it is, and a callable is invoked only by a signal call (of a
\* TriggerEvent, or of a flush for one event) that found it bound when it
\* started (so, for a flush, also with the events that were pending before
\* the subscription).
C6_SubscribeDeliversNothing ==
    [][ /\ Called("SubscribeToEvent") =>
              /\ Len(stack') = Len(stack)
              /\ \A k \in DOMAIN stack :
                    /\ stack'[k].kind = stack[k].kind
                    /\ stack'[k].done = stack[k].done
              /\ \A h \in DOMAIN heap : heap'[h].mEventQueue = heap[h].mEventQueue
              /\ \A h \in DOMAIN heap' \ DOMAIN heap : heap'[h].mEventQueue = <<>>
        /\ \A k \in DOMAIN stack' :
              /\ stack'[k].kind = "invoke" =>
                    /\ k > 1
                    /\ stack'[k - 1].kind \in {"trigger", "flush"}
                    /\ stack'[k].c \in Range(stack'[k - 1].sig)
              /\ \A h \in DOMAIN heap' :
                    (Starts(k) /\ stack'[k].pool = h) => stack'[k].sig = BoundTo(h)' ]_vars

\* A flush invokes a callable with an event enqueued before the callable
\* was subscribed.
C6_Witness ==
    /\ Len(stack) >= 2
    /\ Top.kind = "invoke"
    /\ stack[Len(stack) - 1].kind = "flush"
    /\ ~stack[Len(stack) - 1].dang
    /\ Top.at < Top.c

\* C7: ClearEventQueues() invokes no callable and empties the buffer of every
\* existing pool of the bus, the callables bound stay bound, and a dispatch
\* of an emptied buffer makes no invocation.
C7_ClearDiscardsAll ==
    [][ /\ \A b \in Buses :
              CalledOn("ClearEventQueues", b) =>
                  /\ Len(stack') = Len(stack)
                  /\ mEventPools' = mEventPools
                  /\ Len(heap') = Len(heap)
                  /\ \A h \in DOMAIN heap : heap'[h].mSignal = heap[h].mSignal
                  /\ \A t \in EventTypes : Queue(b, t)' = <<>>
                  /\ \A h \in Pools(mEventPools[b]) : heap'[h].mEventQueue = <<>>
        /\ \A k \in DOMAIN stack' :
              (stack'[k].kind = "flush" /\ stack'[k].snapQ = <<>>) =>
                  stack'[k].done = <<>> ]_vars

\* The application has just cleared two pending events of a type that has a
\* callable bound.
C7_Witness ==
    /\ stack = <<>>
    /\ last.op = "ClearEventQueues"
    /\ last.n >= 2
    /\ \E h \in Pools(mEventPools[last.bus]) :
          heap[h].mSignal # <<>> /\ heap[h].cap >= 2

\* C8: a callable bound to U is only ever invoked with an event triggered or
\* enqueued as U, never with an event of another type.
C8_TypeIsolation ==
    \A k \in DOMAIN stack :
        stack[k].kind = "invoke" => connections[stack[k].c].type = stack[k].ev.tag

\* A callable is invoked with an event of its type while a callable is bound
\* to another type, which has an event pending.
C8_Witness ==
    /\ stack # <<>>
    /\ Top.kind = "invoke"
    /\ \E u \in QueuedTypes \ {Top.ev.tag} :
          BoundTo(PoolOf("bus", u)) # <<>> /\ Pending("bus", u) > 0

\* C9: DispatchQueuedEvents<T>() delivers and then empties T's buffer, and
\* only T's: whenever T has events pending the application can have them
\* delivered by it.
C9_SelectiveDispatchFlushes ==
    \A t \in QueuedTypes :
        (AtTopLevel /\ Pending("bus", t) > 0) => ENABLED DispatchQueuedEventsSel("bus", t)

\* C10: ClearEventQueues<T1, ...>() empties the buffers of exactly the types
\* named, invokes no callable (no invocation is started and none in progress
\* advances), and leaves the buffers of the other types unchanged.
C10_SelectiveClear ==
    [][ \A b \in Buses :
            CalledOn("ClearEventQueuesSel", b) =>
                /\ Len(stack') = Len(stack)
                /\ \A k \in DOMAIN stack :
                      /\ stack'[k].kind = stack[k].kind
                      /\ stack'[k].done = stack[k].done
                /\ \A t \in EventTypes :
                      Queue(b, t)' = IF t \in Range(last'.arg) THEN <<>> ELSE Queue(b, t)
                /\ \A h \in DOMAIN heap :
                      heap[h].type \notin Range(last'.arg) =>
                          heap'[h].mEventQueue = heap[h].mEventQueue ]_vars

\* A selective clear has discarded pending events and another type, not
\* named, still has its own pending.
C10_Witness ==
    /\ last.op = "ClearEventQueuesSel"
    /\ last.n >= 1
    /\ \E t \in QueuedTypes \ Range(last.arg) : Pending(last.bus, t) > 0

\* C11, in what it says of every dispatch whatever the order of creation:
\* DispatchQueuedEvents() flushes the pools in ascending type-id order, each
\* once, and when it returns it has flushed every pool that existed in the
\* bus when it started.  (The claim also identifies this order with the
\* order in which the pools were created; the ids are given by the
\* process-wide registry at the first request of a type, so the two orders
\* differ when the types were first requested in another order.)
C11_EveryPoolInIdOrder ==
    [][ /\ \A k \in DOMAIN stack' :
              stack'[k].kind = "dispatchAll" =>
                  \A i, j \in DOMAIN stack'[k].done :
                      i < j => stack'[k].done[i][1] < stack'[k].done[j][1]
        /\ DispatchAllReturn =>
              \A q \in LiveSlots(Top.snapQ) : <<q, Top.snapQ[q]>> \in Range(Top.done) ]_vars

\* C12: DispatchQueuedEvents() and ClearEventQueues() never create a pool:
\* the calls and every step of the operations in progress leave the vector
\* of every bus, the set of pool objects and the registry as they are, and
\* the dispatch flushes only slots that hold a pool.
C12_NoPoolCreated ==
    [][ /\ (Called("ClearEventQueues") \/ Called("DispatchQueuedEvents") \/ calls' = calls) =>
              /\ mEventPools' = mEventPools
              /\ poolsCap' = poolsCap
              /\ Len(heap') = Len(heap)
              /\ <<nextId, eventID>>' = <<nextId, eventID>>
        /\ \A k \in DOMAIN stack' :
              /\ stack'[k].kind = "flush" => stack'[k].pool \in DOMAIN heap'
              /\ stack'[k].kind = "dispatchAll" =>
                    \A i \in DOMAIN stack'[k].done :
                        stack'[k].done[i][2] \in DOMAIN heap' ]_vars

\* A dispatch that is about to return has flushed a pool and skipped a null
\* slot.
C12_Witness ==
    /\ stack # <<>>
    /\ ~crashed
    /\ Top.kind = "dispatchAll"
    /\ ~Top.dang
    /\ LoopCanEnd(Top)
    /\ Top.done # <<>>
    /\ \E q \in 1..Top.end :
          /\ ~IsPool(mEventPools[Top.bus][q])
          /\ \A i \in DOMAIN Top.done : Top.done[i][1] # q

\* C13: the overloads taking an already-constructed event of T act as the
\* argument-forwarding ones however the event is passed (temporary, variable
\* or const variable): whenever the caller can trigger or enqueue T from
\* arguments for a type with a callable bound, it can do so from a value
\* passed in any of the three ways.
C13_ValueOverloadsEquivalent ==
    \A form \in Forms : \A t \in QueuedTypes : \A v \in Args("bus", t) :
        BoundTo(PoolOf("bus", t)) # <<>> =>
            /\ ENABLED TriggerEvent("bus", t, v) =>
                   ENABLED TriggerEventValue(form, "bus", t, v)
            /\ ENABLED EnqueueEvent("bus", t, v) =>
                   ENABLED EnqueueEventValue(form, "bus", t, v)

\* C14: EnqueueEvent<T>(args) appends exactly one event equal to T(args) at
\* the end of T's buffer, invokes no callable of any type (no invocation is
\* started and none in progress advances), and leaves the buffers of the
\* other types and the callables bound unchanged.
C14_EnqueueAppendsOne ==
    [][ \A b \in Buses : \A t \in QueuedTypes :
            (CalledFor("EnqueueEvent", t) /\ last'.bus = b) =>
                /\ Queue(b, t)' = Append(Queue(b, t), MakeEvent(t, last'.n))
                /\ \A u \in EventTypes \ {t} : Queue(b, u)' = Queue(b, u)
                /\ \A h \in DOMAIN heap :
                      /\ heap'[h].mSignal = heap[h].mSignal
                      /\ h # PoolOf(b, t) => heap'[h].mEventQueue = heap[h].mEventQueue
                /\ Len(stack') = Len(stack)
                /\ \A k \in DOMAIN stack :
                      /\ stack'[k].kind = stack[k].kind
                      /\ stack'[k].done = stack[k].done ]_vars

\* An event has just been enqueued behind another one, for a type with a
\* callable bound, while another type has events pending.
C14_Witness ==
    /\ last.op = "EnqueueEvent"
    /\ Pending(last.bus, last.arg[1]) = last.n
    /\ last.n >= 2
    /\ BoundTo(PoolOf(last.bus, last.arg[1])) # <<>>
    /\ \E u \in QueuedTypes \ {last.arg[1]} : Pending(last.bus, u) > 0

\* C15: in every step, the buffer of a pool of type T gets longer only by an
\* EnqueueEvent for T on a bus that holds the pool (by one event, at the
\* end), gets shorter only to empty and only by the end of a flush of the
\* pool or by a clear, on a bus that holds the pool, that covers T, a pool
\* is created with an empty buffer, and TriggerEvent, SubscribeToEvent and
\* UnsubscribeFromEvent leave the buffer of every pool and the events
\* pending for every type in every bus unchanged.
C15_BufferChanges ==
    [][ /\ \A h \in DOMAIN heap :
              /\ Len(heap'[h].mEventQueue) > Len(heap[h].mEventQueue) =>
                    /\ CalledFor("EnqueueEvent", heap[h].type)
                    /\ PoolOf(last'.bus, heap[h].type) = h
                    /\ heap'[h].mEventQueue =
                           Append(heap[h].mEventQueue, MakeEvent(heap[h].type, last'.n))
              /\ ( /\ heap'[h].mEventQueue # heap[h].mEventQueue
                   /\ Len(heap'[h].mEventQueue) <= Len(heap[h].mEventQueue) ) =>
                    /\ heap'[h].mEventQueue = <<>>
                    /\ \/ /\ Called("ClearEventQueues")
                          /\ h \in Range(mEventPools[last'.bus])
                       \/ /\ CalledFor("ClearEventQueuesSel", heap[h].type)
                          /\ PoolOf(last'.bus, heap[h].type) = h
                       \/ FlushReturn /\ Top.pool = h
        /\ \A h \in DOMAIN heap' \ DOMAIN heap :
              \/ heap'[h].mEventQueue = <<>>
              \/ /\ CalledFor("EnqueueEvent", heap'[h].type)
                 /\ heap'[h].mEventQueue = <<MakeEvent(heap'[h].type, last'.n)>>
        /\ (Called("TriggerEvent") \/ Called("SubscribeToEvent") \/
            Called("UnsubscribeFromEvent")) =>
              /\ \A b \in Buses : \A t \in EventTypes : Queue(b, t)' = Queue(b, t)
              /\ \A h \in DOMAIN heap : heap'[h].mEventQueue = heap[h].mEventQueue
              /\ \A h \in DOMAIN heap' \ DOMAIN heap : heap'[h].mEventQueue = <<>> ]_vars

\* A TriggerEvent for T has invoked a callable while T's buffer holds two
\* pending events.
C15_Witness ==
    /\ stack # <<>>
    /\ Top.kind = "trigger"
    /\ Top.done # <<>>
    /\ Len(heap[Top.pool].mEventQueue) >= 2

\* C16, with the selective clear of spec 4.3 counted among the uses: a pool
\* for T comes to exist in a bus only by a TriggerEvent, an EnqueueEvent, a
\* SubscribeToEvent or a selective ClearEventQueues<..., T, ...>() of that
\* bus for T, and once it exists it is never removed and stays the same pool
\* object.  (The claim as stated also excludes the selective clear, which
\* goes through GetEventHandler<T>() and creates the pool.)
C16_PoolForBusLifetime ==
    [][ \A b \in Buses : \A t \in EventTypes :
            /\ (PoolExists(b, t)' /\ ~PoolExists(b, t)) =>
                   \/ Used(b, t)
                   \/ CalledOn("ClearEventQueuesSel", b) /\ t \in Range(last'.arg)
            /\ PoolExists(b, t) =>
                   /\ PoolExists(b, t)'
                   /\ PoolOf(b, t)' = PoolOf(b, t) ]_vars

\* C17 as stated: the ids of the k types requested so far are exactly
\* 0..k-1.
C17_Dense ==
    Range(eventID) = 0..(Cardinality(DOMAIN eventID) - 1)

\* C17, amended: the first id request for a type returns the value of the
\* one counter, which starts at 0, and advances it by one; every later
\* request for the type returns the same id; no two types share an id; a
\* direct call of GetUniqueEventId() also advances the counter by one, and
\* the id it returns is the id of no type (so the ids of k types are k
\* distinct integers below the counter, 0..k-1 only when no direct call was
\* made).
C17_Registry ==
    [][ /\ \A t \in DOMAIN eventID : t \in DOMAIN eventID' /\ eventID'[t] = eventID[t]
        /\ IF Called("GetUniqueEventId")
           THEN /\ nextId' = nextId + 1
                /\ last'.n = nextId
                /\ eventID' = eventID
           ELSE /\ {eventID'[t] : t \in DOMAIN eventID' \ DOMAIN eventID} =
                       nextId..(nextId' - 1)
                /\ Cardinality(DOMAIN eventID' \ DOMAIN eventID) = nextId' - nextId
        /\ \A t \in DOMAIN eventID' : eventID'[t] \in 0..(nextId' - 1)
        /\ \A t, u \in DOMAIN eventID' : t # u => eventID'[t] # eventID'[u]
        /\ (nextId' = Cardinality(DOMAIN eventID')) =>
              Range(eventID') = 0..(Cardinality(DOMAIN eventID') - 1)
        /\ Called("GetEventId") => last'.n = eventID'[last'.arg[1]] ]_vars

\* After a direct call of GetUniqueEventId() and the registration of two
\* types, a later request for the type registered first has been answered
\* with its id.
C17_Witness ==
    /\ Cardinality(DOMAIN eventID) >= 2
    /\ nextId = Cardinality(DOMAIN eventID) + 1
    /\ last.op = "GetEventId"
    /\ last.arg[1] \in DOMAIN eventID
    /\ last.n = eventID[last.arg[1]]
    /\ \E t \in DOMAIN eventID : eventID[t] > last.n

\* C18: when a callable, invoked by a TriggerEvent or by a dispatch, calls
\* TriggerEvent, the nested trigger runs on top of the invocation in
\* progress: it makes all its invocations, each bound callable once, before
\* it returns; until then no operation below it invokes anything, and the
\* outer TriggerEvent (or the outer flush, when its callables only trigger)
\* still invokes each of its remaining callables exactly once before it
\* returns.
C18_NestedTriggerCompletesFirst ==
    [][ /\ Called("TriggerEvent") =>
              /\ Len(stack') = Len(stack) + 1
              /\ stack'[Len(stack')].kind = "trigger"
              /\ stack'[Len(stack')].call = MakeEvent(last'.arg[1], last'.n)
              /\ stack'[Len(stack')].done = <<>>
        /\ \A k \in DOMAIN stack \cap DOMAIN stack' :
              k < Len(stack) =>
                  /\ stack'[k].kind = stack[k].kind
                  /\ stack'[k].done = stack[k].done
                  /\ stack'[k].i = stack[k].i
        /\ (TriggerReturn /\ Len(stack) > 1) =>
              /\ Top.done = Walk(Top.snapS, Top.call)
              /\ stack'[Len(stack')].kind = "invoke"
        /\ \A k \in DOMAIN stack' :
              (stack'[k].kind = "trigger" /\ k < Len(stack')) =>
                  /\ stack'[k].done = SubSeq(Walk(stack'[k].snapS, stack'[k].call),
                                             1, stack'[k].i)
                  /\ stack'[k].i <= Len(stack'[k].snapS)
        /\ \A k \in DOMAIN stack \cap DOMAIN stack' :
              (stack[k].kind = "flush" /\ stack'[k].done # stack[k].done
                  /\ ~stack'[k].dang /\ stack'[k].enq = 0 /\ ~stack'[k].chg) =>
                  IsPrefix(stack'[k].done, Expected(stack'[k].snapQ, stack'[k].snapS))
        /\ (FlushReturn /\ ~Top.dang /\ Top.enq = 0 /\ ~Top.chg) =>
              Top.done = Expected(Top.snapQ, Top.snapS) ]_vars

\* A nested TriggerEvent, called by the first of the two callables of an
\* outer TriggerEvent, has made its invocation and is about to return; the
\* outer one has its second callable left.
C18_Witness ==
    /\ Len(stack) = 3
    /\ ~crashed
    /\ stack[1].kind = "trigger"
    /\ Len(stack[1].snapS) = 2
    /\ Len(stack[1].done) = 1
    /\ stack[2].kind = "invoke"
    /\ stack[3].kind = "trigger"
    /\ stack[3].done # <<>>
    /\ stack[3].i = Len(stack[3].sig)

\* C19: when a callable calls DispatchQueuedEvents or ClearEventQueues while
\* T's buffer is flushed (and enqueues nothing, and the callables bound stay
\* the same), the outer flush never reads an element that the nested call
\* has removed, and no event is delivered to a callable both by the outer
\* flush and by a nested one.
C19_NestedDispatchOrClearSafe ==
    \A k \in DOMAIN stack :
        (stack[k].kind = "flush" /\ stack[k].enq = 0 /\ ~stack[k].chg) =>
            /\ (k = Len(stack) /\ ~crashed /\ FlushLeft) => FlushReadValid
            /\ \A n \in DOMAIN stack :
                  (n > k /\ stack[n].kind = "flush" /\ stack[n].pool = stack[k].pool) =>
                      Range(stack[n].done) \cap Range(stack[k].done) = {}

\* C20: when a callable invoked during DispatchQueuedEvents() makes the pool
\* collection grow, the loop over the pools never stands before a slot of a
\* collection that the growth has replaced, and the process does not end
\* there.
C20_PoolGrowthSafe ==
    \A k \in DOMAIN stack :
        (stack[k].kind = "dispatchAll" /\ Len(mEventPools[stack[k].bus]) > stack[k].end) =>
            /\ ~(stack[k].dang /\ stack[k].p <= stack[k].end)
            /\ ~(crashed /\ k = Len(stack))

====
